---------------------------- MODULE Spec2Model ----------------------------
(***************************************************************************)
(* Model of pyppi.model_selection.sampling.IterativeStratifiedKFold, the   *)
(* multi-label iterative stratification splitter                           *)
(* (src/model_selection/sampling.py).                                      *)
(*                                                                         *)
(* Conventions                                                             *)
(*  - y is the label array handed to split, a two-dimensional array: a     *)
(*    function from the sample index 0..N-1 to a row, the row being the    *)
(*    label set of the sample written as `width` distinct label values.    *)
(*    The code reads a row only through `label in row`, through the        *)
(*    flattened np.unique/bincount and through `for row_l in row` whose    *)
(*    decrements commute, so the order inside a row does not matter and a  *)
(*    row is kept in increasing order.                                     *)
(*  - r = 1/n_splits is a float in the code.  Every target (subset_c_j,    *)
(*    subset_c_ij, n_samples_for_label) is stored here multiplied by       *)
(*    n_splits, so c*r is the integer c and `-= 1` subtracts n_splits.     *)
(*    The code only compares targets of the same label (or sizes) that     *)
(*    differ by whole numbers, so ties and order are the same.             *)
(*  - random_state is None (numpy's global generator: every draw is        *)
(*    free) or an integer seed.  With a seed check_random_state builds a   *)
(*    fresh RandomState(seed) on every call, so a draw among m candidates  *)
(*    is a fixed but unknown function of m, and the shuffle a fixed but    *)
(*    unknown permutation; both are chosen on first use and remembered.    *)
(***************************************************************************)
EXTENDS Integers, Sequences, FiniteSets, TLC

\* ------------------------------------------------------------------ bounds
MaxN == 3
MaxWidth == 2
NumLabels == 3
MaxSplits == 3
MaxNWide == 4
MaxNShuffled == 2
MaxKeys == 3
MaxKey == 2

VARIABLES
    tie,               \* a direct call of _arg_with_ties: arguments, result
    other_rng,         \* draws fixed by the seed of another, concurrent split
    drawn,             \* seeded single-winner draws made: <<m, position>>
    X,                 \* the caller's feature array
    groups,            \* the caller's groups argument
    y,                 \* the caller's label array
    n_splits,          \* self.n_splits
    shuffle,           \* self.shuffle
    seeded,            \* TRUE: self.random_state is an integer seed
    rng_choice,        \* seeded draws already fixed: m -> drawn position
    rng_perm,          \* seeded shuffle permutation already fixed, or <<>>
    pc,                \* control point of the running split
    error,             \* exception that ended the split, or "none"
    warned,            \* warnings.warn was called by this split
    ys,                \* y as _make_test_folds passes it on (shuffled)
    subset_c_j,        \* target_size per fold (times n_splits)
    subset_c_ij,       \* target_count per fold and label (times n_splits)
    completed_labels,  \* completed_labels, in order of completion
    sampled_indices,   \* sampled_indices
    folds_idx,         \* folds_idx: member list per fold
    label,             \* label of the running pass
    y_l,               \* indices carrying `label`
    y_l_pos,           \* position of the for loop in y_l
    fold_index,        \* fold of the last commit, -1 while unbound
    test_folds,        \* assignment vector returned by the stratifier
    yield_i,           \* loop variable of _iter_test_masks
    yielded,           \* (train, test) pairs yielded so far
    calls,             \* split invocations started on this object
    history,           \* outcomes of the earlier split calls
    n_strat            \* stratifier runs started by the current split

vars == <<tie, other_rng, drawn, X, groups, y, n_splits, shuffle, seeded, rng_choice, rng_perm, pc, error,
          warned, ys, subset_c_j, subset_c_ij, completed_labels,
          sampled_indices, folds_idx, label, y_l, y_l_pos, fold_index,
          test_folds, yield_i, yielded, calls, history, n_strat>>

\* ----------------------------------------------------------------- helpers
Range(s) == {s[i] : i \in DOMAIN s}

Max(S) == CHOOSE x \in S : \A z \in S : z <= x

Min(S) == CHOOSE x \in S : \A z \in S : x <= z

RECURSIVE SortedSeq(_)
SortedSeq(S) ==
    IF S = {} THEN <<>> ELSE <<Min(S)>> \o SortedSeq(S \ {Min(S)})

\* the rows of `w` distinct label values out of 1..nlabels
Rows(w, nlabels) ==
    {row \in [1..w -> 1..nlabels] : \A i \in 1..(w - 1) : row[i] < row[i + 1]}

\* the arrays of n rows
LabelArrays(n, w, nlabels) == [0..(n - 1) -> Rows(w, nlabels)]

n_samples_of(arr) == Cardinality(DOMAIN arr)

width_of(arr) == IF n_samples_of(arr) = 0 THEN 0 ELSE Len(arr[0])

Folds == 0..(n_splits - 1)

\* rows of different lengths: np.array makes of them a one-dimensional
\* array of objects, each row one element
Ragged(arr) == \E i, j \in DOMAIN arr : Len(arr[i]) # Len(arr[j])

\* a row as one value of such an array. Rows compare as Python sequences do
\* (element by element, a proper prefix first); the row is written as a
\* number that keeps this order and is larger than every label value.
KeyBase == NumLabels + 2

RECURSIVE RowKeyUpTo(_, _)
RowKeyUpTo(row, i) ==
    IF i = 0 THEN 1
    ELSE RowKeyUpTo(row, i - 1) * KeyBase + (IF i <= Len(row) THEN row[i] ELSE 0)

RowKey(row) == RowKeyUpTo(row, MaxWidth)

\* np.unique(y): the sorted distinct values of the flattened array; of a
\* one-dimensional array of objects, the distinct rows
unique_y(arr) ==
    IF Ragged(arr) THEN {RowKey(arr[i]) : i \in DOMAIN arr}
    ELSE UNION {Range(arr[i]) : i \in DOMAIN arr}

\* bincount(y_inversed): occurrences of a value in the flattened array
y_counts(arr, l) ==
    IF Ragged(arr) THEN Cardinality({i \in DOMAIN arr : RowKey(arr[i]) = l})
    ELSE Cardinality({cell \in (DOMAIN arr) \X (1..width_of(arr)) : arr[cell[1]][cell[2]] = l})

\* `label in ys` for a row ys; a value that is itself a row is equal to no
\* element of a row
Carries(row, l) == l \in Range(row)


\* ------------------------------------------------------------- tie breaker
ExtremumAlwaysMin(array, arg_func) == Min(Range(array))

\* lines 27-29 of _arg_with_ties: the 0-based positions of `array` that hold
\* arg_func(array), in ascending order (array is a Python list, here 1-based)
Extremum(array, arg_func) ==
    IF arg_func = "min" THEN Min(Range(array)) ELSE Max(Range(array))

Argxs(array, arg_func) ==
    SortedSeq({i - 1 : i \in {j \in DOMAIN array : array[j] = Extremum(array, arg_func)}})

\* break_ties=False: return sorted(argxs)
ArgWithTiesSet(array, arg_func) == Argxs(array, arg_func)

DrawAllowedUnseeded(m, p) == p \in 1..m

\* rng.choice(argxs, size=1, replace=False)[0], p being the drawn position
\* of argxs: free with the global generator, fixed per length with a seed
DrawAllowed(m, p) ==
    /\ p \in 1..m
    /\ (seeded /\ m \in DOMAIN rng_choice) => p = rng_choice[m]

DrawRecordedNever(m, p) == rng_choice

DrawRecorded(m, p) ==
    IF seeded THEN [k \in (DOMAIN rng_choice) \cup {m} |-> IF k = m THEN p ELSE rng_choice[k]]
    ELSE rng_choice

\* the log of the draws made with a seed: position p was drawn among m
DrawLogged(m, p) == IF seeded THEN drawn \cup {<<m, p>>} ELSE drawn

\* rng.shuffle(Xy): q is the permutation applied, new[i] = old[q[i]]
IndexPermutations(n) ==
    {q \in [0..(n - 1) -> 0..(n - 1)] : \A a, b \in 0..(n - 1) : q[a] = q[b] => a = b}

ShuffleAllowed(q) ==
    /\ (seeded /\ rng_perm # <<>>) => q = rng_perm[1]

\* ------------------------------------------------------------------- state
NoTargets == <<>>

\* no call of _arg_with_ties from outside is pending
NoTie ==
    [array |-> <<>>, arg_func |-> "min", break_ties |-> FALSE, done |-> TRUE,
     returned |-> "none"]

\* the calls _arg_with_ties(array, arg_func, break_ties) on lists of up to
\* MaxKeys keys out of 0..MaxKey
TieCalls ==
    {[array |-> a, arg_func |-> f, break_ties |-> b, done |-> FALSE,
      returned |-> "none"] :
        a \in UNION {[1..n -> 0..MaxKey] : n \in 0..MaxKeys},
        f \in {"min", "max"},
        b \in BOOLEAN}

\* np.zeros(n_samples), the placeholder for X of the docstring of split
Placeholder(arr) == [i \in DOMAIN arr |-> 0]

\* groups=None, and groups given as an array
NoGroups == [given |-> FALSE, values |-> <<>>]

GroupsOf(values) == [given |-> TRUE, values |-> values]

TypeOK ==
    /\ n_samples_of(y) <= MaxNWide
    /\ n_samples_of(X) = n_samples_of(y)
    /\ groups.given \in BOOLEAN
    /\ n_samples_of(groups.values) <= MaxNWide + 1
    /\ \A i \in DOMAIN y :
         Len(y[i]) <= MaxWidth /\ Range(y[i]) \subseteq 1..(NumLabels + 1)
    /\ n_splits \in 2..MaxSplits
    /\ shuffle \in BOOLEAN
    /\ seeded \in BOOLEAN
    /\ pc \in {"ready", "make_test_folds", "stratify", "loop", "for",
               "yield", "exhausted", "error"}
    /\ error \in {"none", "ValueError", "AssertionError", "UnboundLocalError",
                  "TypeError"}
    /\ warned \in BOOLEAN
    /\ calls \in 0..3
    /\ Len(history) <= 2

\* the state of a splitter object right after __init__ (lines 17-20;
\* _BaseKFold.__init__ rejects n_splits <= 1), with the arguments of the
\* split calls to come
InitFrom(arrays, shuffles, seedings) ==
    /\ y \in arrays
    /\ drawn = {}
    /\ other_rng = <<>>
    /\ X = Placeholder(y)
    /\ groups = NoGroups
    /\ n_splits \in 2..MaxSplits
    /\ shuffle \in shuffles
    /\ seeded \in seedings
    /\ rng_choice = <<>>
    /\ rng_perm = <<>>
    /\ pc = "ready"
    /\ error = "none"
    /\ warned = FALSE
    /\ ys = <<>>
    /\ subset_c_j = NoTargets
    /\ subset_c_ij = NoTargets
    /\ completed_labels = <<>>
    /\ sampled_indices = {}
    /\ folds_idx = <<>>
    /\ label = 0
    /\ y_l = <<>>
    /\ y_l_pos = 1
    /\ fold_index = -1
    /\ test_folds = <<>>
    /\ yield_i = 0
    /\ yielded = <<>>
    /\ calls = 0
    /\ history = <<>>
    /\ n_strat = 0

InitWith(maxn, nlabels, shuffles, seedings) ==
    /\ InitFrom(UNION {LabelArrays(n, w, nlabels) : n \in 0..maxn, w \in 0..MaxWidth},
                shuffles, seedings)
    /\ tie = NoTie

\* the default configuration: shuffle=False, random_state=None
Init == InitWith(MaxN, NumLabels, {FALSE}, {FALSE})

\* count[l] of the design: the samples whose row carries l
SampleCount(arr, l) == Cardinality({i \in DOMAIN arr : l \in Range(arr[i])})

\* non-degenerate input: every label has at least n_splits samples
NonDegenerate(arr) == \A l \in unique_y(arr) : SampleCount(arr, l) >= n_splits

\* larger arrays, restricted to the non-degenerate ones
InitWide ==
    /\ InitWith(MaxNWide, NumLabels, {FALSE}, {FALSE})
    /\ NonDegenerate(y)

\* split with shuffle=True, on arrays whose label counts are multiples of
\* n_splits
InitShuffle ==
    /\ InitWith(MaxNWide, NumLabels, {TRUE}, BOOLEAN)
    /\ \A l \in unique_y(y) : SampleCount(y, l) % n_splits = 0

\* a seeded splitter whose split is called twice, without shuffle or, on a
\* shorter array, with shuffle
InitRepeat ==
    \/ InitWith(MaxN, NumLabels, {FALSE}, {TRUE})
    \/ InitWith(MaxNShuffled, NumLabels, {TRUE}, {TRUE})

\* a seeded splitter that is called on an array, on another one, and on the
\* first again
InitFresh == InitWith(MaxN, NumLabels, {FALSE}, {TRUE})

\* the samples whose row carries l
Carriers(arr, l) == {i \in DOMAIN arr : l \in Range(arr[i])}

\* two labels are carried by the same samples, and not by all samples
TwinLabels(arr) ==
    \E l, m \in unique_y(arr) :
      l # m /\ Carriers(arr, l) = Carriers(arr, m) /\ Carriers(arr, l) # DOMAIN arr

\* arrays over one label more that have twin labels: after the pass of one
\* twin no sample of the other is left unassigned
InitManyLabels ==
    /\ InitWith(MaxN, NumLabels + 1, {FALSE}, {FALSE})
    /\ TwinLabels(y)

\* the rows of the largest width, where samples are met again in later
\* passes and folds tie, with the largest number of folds but one; and the
\* smallest arrays in which a pass finds nothing to assign: three samples
\* with two labels each, two of the labels on the same samples
InitLive ==
    /\ \/ /\ InitWith(MaxN, NumLabels, {FALSE}, {FALSE})
          /\ width_of(y) \in {0, MaxWidth}
       \/ /\ InitWith(3, NumLabels + 1, {FALSE}, {FALSE})
          /\ TwinLabels(y)
          /\ n_samples_of(y) = 3
          /\ width_of(y) = 2
    /\ n_splits = MaxSplits - 1

\* a seeded splitter that is called twice on the same y, the second time
\* with other X and groups, without shuffle or, on a shorter array, with
\* shuffle
InitArguments ==
    \/ InitWith(MaxN, NumLabels, {FALSE}, {TRUE})
    \/ InitWith(MaxNShuffled, NumLabels, {TRUE}, {TRUE})

\* rows of every length up to MaxWidth, also of different lengths in one
\* array: a sample may carry fewer labels than another, or none
AnyRows == UNION {Rows(w, NumLabels) : w \in 0..MaxWidth}

InitRagged ==
    /\ InitFrom(UNION {[0..(n - 1) -> AnyRows] : n \in 0..MaxN}, {FALSE}, {FALSE})
    /\ tie = NoTie

\* a splitter whose _arg_with_ties is called on a list of keys
InitTies ==
    /\ InitFrom({<<>>}, {FALSE}, BOOLEAN)
    /\ n_splits = 2
    /\ tie \in TieCalls

\* ---------------------------------------------------------- _arg_with_ties
\* lines 22-34: min() or max() of an empty list raises ValueError
arg_with_ties ==
    /\ ~tie.done
    /\ IF tie.array = <<>>
       THEN /\ tie' = [tie EXCEPT !.done = TRUE, !.returned = "ValueError"]
            /\ UNCHANGED <<rng_choice, drawn>>
       ELSE \E argxs \in {Argxs(tie.array, tie.arg_func)} :
              IF tie.break_ties
              THEN \E p \in 1..Len(argxs) :
                     /\ DrawAllowed(Len(argxs), p)
                     /\ rng_choice' = DrawRecorded(Len(argxs), p)
                     /\ drawn' = DrawLogged(Len(argxs), p)
                     /\ tie' = [tie EXCEPT !.done = TRUE, !.returned = argxs[p]]
              ELSE /\ tie' = [tie EXCEPT !.done = TRUE,
                                         !.returned = ArgWithTiesSet(tie.array, tie.arg_func)]
                   /\ UNCHANGED <<rng_choice, drawn>>
    /\ UNCHANGED <<other_rng, X, groups, y, n_splits, shuffle, seeded, rng_perm, pc,
                   error, warned, ys, subset_c_j, subset_c_ij, completed_labels,
                   sampled_indices, folds_idx, label, y_l, y_l_pos, fold_index,
                   test_folds, yield_i, yielded, calls, history, n_strat>>

\* ------------------------------------------------------------------- split
CheckArrayAcceptsEmpty(arr) == FALSE

\* line 198: check_array(y, ensure_2d=False, dtype=None) raises ValueError
\* for an array without samples or without columns
CheckArrayRejects(arr) ==
    n_samples_of(arr) = 0 \/ (~Ragged(arr) /\ width_of(arr) = 0)

GroupsRejectedWhenGiven(XX, gg) == gg.given

\* _BaseKFold.split, indexable(X, y, groups): a groups array whose length
\* is not that of X raises ValueError
GroupsRejected(XX, gg) == gg.given /\ n_samples_of(gg.values) # n_samples_of(XX)

\* split (lines 198-199) up to the call of _iter_test_masks: check_array
\* rejects an empty array, _BaseKFold.split rejects arguments of different
\* lengths and n_splits > n_samples.  Every local of the previous call is
\* gone.
SplitCallWith(XX, arr, gg) ==
    /\ calls' = calls + 1
    /\ X' = XX
    /\ y' = arr
    /\ groups' = gg
    /\ IF \/ CheckArrayRejects(arr)
          \/ n_samples_of(XX) # n_samples_of(arr)
          \/ GroupsRejected(XX, gg)
          \/ n_splits > n_samples_of(XX)
       THEN pc' = "error" /\ error' = "ValueError"
       ELSE pc' = "make_test_folds" /\ error' = "none"
    /\ warned' = FALSE
    /\ ys' = <<>>
    /\ subset_c_j' = NoTargets
    /\ subset_c_ij' = NoTargets
    /\ completed_labels' = <<>>
    /\ sampled_indices' = {}
    /\ folds_idx' = <<>>
    /\ label' = 0
    /\ y_l' = <<>>
    /\ y_l_pos' = 1
    /\ fold_index' = -1
    /\ test_folds' = <<>>
    /\ yield_i' = 0
    /\ yielded' = <<>>
    /\ n_strat' = 0
    /\ UNCHANGED <<tie, other_rng, drawn, n_splits, shuffle, seeded, rng_choice, rng_perm>>

\* split(np.zeros(n_samples), arr)
SplitCall(arr) == SplitCallWith(Placeholder(arr), arr, NoGroups)

\* split called on the array y
StartSplit == SplitCall(y)

split ==
    /\ pc = "ready"
    /\ StartSplit
    /\ UNCHANGED history

\* what the caller keeps of a finished split
Outcome == [input |-> y, vector |-> test_folds, pairs |-> yielded, error |-> error]

\* a second call of split on the same object with the same arguments
split_again ==
    /\ pc \in {"exhausted", "error"}
    /\ history = <<>>
    /\ StartSplit
    /\ history' = Append(history, Outcome)

\* another array a caller may hand to the same splitter: the array without
\* its last row, read backwards and with the label values mirrored
DropLast(arr) ==
    IF n_samples_of(arr) = 0 THEN arr
    ELSE [i \in 0..(n_samples_of(arr) - 2) |-> arr[i]]

Mirrored(arr) ==
    [i \in DOMAIN arr |->
       [c \in 1..width_of(arr) |->
          NumLabels + 1 - arr[n_samples_of(arr) - 1 - i][width_of(arr) + 1 - c]]]

OtherDatasets(arr) == {Mirrored(DropLast(arr))}

\* the same splitter object is called on another array
split_other ==
    /\ pc \in {"exhausted", "error"}
    /\ history = <<>>
    /\ \E arr \in OtherDatasets(y) : SplitCall(arr)
    /\ history' = Append(history, Outcome)

\* and then again on the array of its first call
split_back ==
    /\ pc \in {"exhausted", "error"}
    /\ Len(history) = 1
    /\ SplitCall(history[1].input)
    /\ history' = Append(history, Outcome)

\* other X and groups arguments for the same y: other feature values with
\* a groups array of one entry per sample, and a groups array with an entry
\* too many
OtherArguments(arr) ==
    {[X |-> [i \in DOMAIN arr |-> i + 1],
      groups |-> GroupsOf([i \in DOMAIN arr |-> i])],
     [X |-> Placeholder(arr),
      groups |-> GroupsOf([i \in 0..n_samples_of(arr) |-> 0])]}

\* the same splitter object is called on the same y with other X and groups
split_other_arguments ==
    /\ pc \in {"exhausted", "error"}
    /\ history = <<>>
    /\ \E a \in OtherArguments(y) : SplitCallWith(a.X, y, a.groups)
    /\ history' = Append(history, Outcome)

\* ------------------------------------------------------- _make_test_folds
AnyClassTooSmall(arr) == \E l \in unique_y(arr) : n_splits > y_counts(arr, l)

ClassCheckSkipped(arr) == FALSE

\* line 129: np.all(self.n_splits > y_counts)
AllClassesTooSmall(arr) == \A l \in unique_y(arr) : n_splits > y_counts(arr, l)

\* line 128: np.min(y_counts)
min_groups(arr) == Min({y_counts(arr, l) : l \in unique_y(arr)})

LeastClassNeverTooSmall(arr) == FALSE

\* line 133: self.n_splits > min_groups
LeastClassTooSmall(arr) == n_splits > min_groups(arr)

\* lines 120-124: the rows in the order rng.shuffle leaves them
Shuffled(arr, q) == [i \in DOMAIN arr |-> arr[q[i]]]

\* lines 117-142: np.min of an empty y_counts (line 128) raises ValueError,
\* as does line 130
make_test_folds ==
    /\ pc = "make_test_folds"
    /\ IF shuffle
       THEN \E q \in IndexPermutations(n_samples_of(y)) :
              /\ ShuffleAllowed(q)
              /\ rng_perm' = IF seeded THEN <<q>> ELSE rng_perm
              /\ ys' = Shuffled(y, q)
       ELSE /\ rng_perm' = rng_perm
            /\ ys' = y
    /\ IF unique_y(ys') = {} \/ AllClassesTooSmall(ys')
       THEN pc' = "error" /\ error' = "ValueError" /\ warned' = warned
       ELSE pc' = "stratify" /\ error' = error /\ warned' = LeastClassTooSmall(ys')
    /\ UNCHANGED <<tie, other_rng, drawn, X, groups, y, n_splits, shuffle, seeded, rng_choice, subset_c_j,
                   subset_c_ij, completed_labels, sampled_indices, folds_idx,
                   label, y_l, y_l_pos, fold_index, test_folds, yield_i,
                   yielded, calls, history, n_strat>>


\* ------------------------------------------------ _iterative_stratification
n_samples == n_samples_of(ys)

InitialSizeLeftOver == n_samples - n_splits * Len(history)

\* lines 42-59: targets of every fold, n_samples*r and c*r (times n_splits)
InitialSize == n_samples

InitialCount(l) == y_counts(ys, l)

\* line 55: the values of unique_y are the keys of a dict. The rows of a
\* one-dimensional array of objects are the caller's lists, which are not
\* hashable (TypeError), or the caller's tuples, which are.
RowsHashable == {TRUE} \cup (IF Ragged(ys) THEN {FALSE} ELSE {})

stratify_init ==
    /\ pc = "stratify"
    /\ subset_c_j' = [f \in Folds |-> InitialSize]
    /\ folds_idx' = [f \in Folds |-> <<>>]
    /\ completed_labels' = <<>>
    /\ sampled_indices' = {}
    /\ test_folds' = <<>>
    /\ n_strat' = n_strat + 1
    /\ \E hashable \in RowsHashable :
         IF hashable
         THEN /\ subset_c_ij' = [f \in Folds |-> [l \in unique_y(ys) |-> InitialCount(l)]]
              /\ pc' = "loop"
              /\ error' = error
         ELSE /\ subset_c_ij' = subset_c_ij
              /\ pc' = "error"
              /\ error' = "TypeError"
    /\ UNCHANGED <<tie, other_rng, drawn, X, groups, y, n_splits, shuffle, seeded, rng_choice, rng_perm,
                   warned, ys, label, y_l, y_l_pos, fold_index, yield_i,
                   yielded, calls, history>>

LoopConditionOneShort == Cardinality(sampled_indices) < n_samples - 1

\* line 61: while len(sampled_indices) < n_samples
LoopCondition == Cardinality(sampled_indices) < n_samples

\* lines 64-65: the keys of n_samples_for_label, in dict order (the order of
\* unique_y)
RemainingLabels == SortedSeq(unique_y(ys) \ Range(completed_labels))

LabelKeysAllEqual(keys) == [i \in 1..Len(keys) |-> 0]

\* lines 64-65: the values c*r of n_samples_for_label
LabelKeys(keys) == [i \in 1..Len(keys) |-> y_counts(ys, keys[i])]

IndicesCarryingNone(l) == <<>>

IndicesCarryingDescending(l) ==
    LET up == SortedSeq({idx \in DOMAIN ys : Carries(ys[idx], l)})
    IN [i \in 1..Len(up) |-> up[Len(up) + 1 - i]]

\* line 70: y_l
IndicesCarrying(l) == SortedSeq({idx \in DOMAIN ys : Carries(ys[idx], l)})

\* lines 61-70: a pass starts; min() of an empty list raises ValueError
select_label ==
    /\ pc = "loop"
    /\ LoopCondition
    /\ \E keys \in {RemainingLabels} :
       IF keys = <<>>
       THEN /\ pc' = "error"
            /\ error' = "ValueError"
            /\ UNCHANGED <<label, y_l, y_l_pos, rng_choice, drawn>>
       ELSE \E argxs \in {Argxs(LabelKeys(keys), "min")} :
            \E p \in 1..Len(argxs) :
              /\ DrawAllowed(Len(argxs), p)
              /\ rng_choice' = DrawRecorded(Len(argxs), p)
              /\ drawn' = DrawLogged(Len(argxs), p)
              /\ label' = keys[argxs[p] + 1]
              /\ y_l' = IndicesCarrying(keys[argxs[p] + 1])
              /\ y_l_pos' = 1
              /\ pc' = "for"
              /\ error' = error
    /\ UNCHANGED <<tie, other_rng, X, groups, y, n_splits, shuffle, seeded, rng_perm, warned, ys,
                   subset_c_j, subset_c_ij, completed_labels, sampled_indices,
                   folds_idx, fold_index, test_folds, yield_i, yielded, calls,
                   history, n_strat>>

AlreadySampledIgnored(idx) == FALSE

\* line 74: if idx in sampled_indices
AlreadySampled(idx) == idx \in sampled_indices

\* lines 73-75: continue
skip_sampled ==
    /\ pc = "for"
    /\ y_l_pos <= Len(y_l)
    /\ AlreadySampled(y_l[y_l_pos])
    /\ y_l_pos' = y_l_pos + 1
    /\ UNCHANGED <<tie, other_rng, drawn, X, groups, y, n_splits, shuffle, seeded, rng_choice, rng_perm, pc,
                   error, warned, ys, subset_c_j, subset_c_ij,
                   completed_labels, sampled_indices, folds_idx, label, y_l,
                   fold_index, test_folds, yield_i, yielded, calls, history,
                   n_strat>>

HungriestFoldsAnyFold(l) == SortedSeq(Folds)

HungriestFoldsLeast(l) ==
    ArgWithTiesSet([i \in 1..n_splits |-> subset_c_ij[i - 1][l]], "min")

\* lines 79-82: the folds with the largest target_count for the label
HungriestFolds(l) ==
    ArgWithTiesSet([i \in 1..n_splits |-> subset_c_ij[i - 1][l]], "max")

SizesOfAllEqual(fold_indices) == [j \in 1..Len(fold_indices) |-> 0]

\* line 87: subset_c_j[fold_indices]
SizesOf(fold_indices) ==
    [j \in 1..Len(fold_indices) |-> subset_c_j[fold_indices[j]]]

CountsAfterCommitNoUpdate(fold, row) == subset_c_ij

CountsAfterCommitEveryFold(fold, row) ==
    [f \in Folds |->
       [l \in unique_y(ys) |->
          subset_c_ij[f][l] - n_splits * Cardinality({c \in DOMAIN row : row[c] = l})]]

\* lines 97-98: every cell of the row takes 1 off the fold's target_count
CountsAfterCommit(fold, row) ==
    [f \in Folds |->
       [l \in unique_y(ys) |->
          IF f = fold
          THEN subset_c_ij[f][l]
               - n_splits * Cardinality({c \in DOMAIN row : row[c] = l})
          ELSE subset_c_ij[f][l]]]

\* lines 77-98: the sample goes to one fold
commit_sample ==
    /\ pc = "for"
    /\ y_l_pos <= Len(y_l)
    /\ ~AlreadySampled(y_l[y_l_pos])
    /\ \E idx \in {y_l[y_l_pos]}, fold_indices \in {HungriestFolds(label)} :
       \E argxs \in {Argxs(SizesOf(fold_indices), "max")} :
       \E p \in 1..Len(argxs) :
       \E fold \in {fold_indices[argxs[p] + 1]} :
            /\ DrawAllowed(Len(argxs), p)
            /\ rng_choice' = DrawRecorded(Len(argxs), p)
            /\ drawn' = DrawLogged(Len(argxs), p)
            /\ folds_idx' = [folds_idx EXCEPT ![fold] = Append(@, idx)]
            /\ sampled_indices' = sampled_indices \cup {idx}
            /\ subset_c_ij' = CountsAfterCommit(fold, ys[idx])
            /\ fold_index' = fold
    /\ y_l_pos' = y_l_pos + 1
    /\ UNCHANGED <<tie, other_rng, X, groups, y, n_splits, shuffle, seeded, rng_perm, pc, error, warned,
                   ys, subset_c_j, completed_labels, label, y_l, test_folds,
                   yield_i, yielded, calls, history, n_strat>>

\* the running pass found every sample of its label assigned: each of them
\* carries a label completed before
EmptyPass ==
    \A idx \in DOMAIN ys :
      Carries(ys[idx], label) =>
        \E j \in 1..Len(completed_labels) : Carries(ys[idx], completed_labels[j])

SizesAfterPassEveryFold == [f \in Folds |-> subset_c_j[f] - n_splits]

SizesAfterPassWithCommit ==
    IF EmptyPass THEN subset_c_j
    ELSE [subset_c_j EXCEPT ![fold_index] = @ - n_splits]

\* line 101: subset_c_j[fold_index] -= 1
SizesAfterPass == [subset_c_j EXCEPT ![fold_index] = @ - n_splits]

\* lines 100-102: the pass ends; fold_index is the fold of the last commit
\* of this or of an earlier pass
end_pass ==
    /\ pc = "for"
    /\ y_l_pos > Len(y_l)
    /\ IF fold_index = -1
       THEN /\ pc' = "error"
            /\ error' = "UnboundLocalError"
            /\ UNCHANGED <<subset_c_j, completed_labels>>
       ELSE /\ subset_c_j' = SizesAfterPass
            /\ completed_labels' = Append(completed_labels, label)
            /\ pc' = "loop"
            /\ error' = error
    /\ UNCHANGED <<tie, other_rng, drawn, X, groups, y, n_splits, shuffle, seeded, rng_choice, rng_perm, warned,
                   ys, subset_c_ij, sampled_indices, folds_idx, label, y_l,
                   y_l_pos, fold_index, test_folds, yield_i, yielded, calls,
                   history, n_strat>>

\* lines 105-108: the assertion after the loop
FoldsDisjoint(folds) ==
    \A a, b \in DOMAIN folds : a # b => Range(folds[a]) \cap Range(folds[b]) = {}

\* lines 46, 110-112: zeros, then fold i written at the indices of folds_idx[i]
TestIdx(folds) ==
    [idx \in DOMAIN ys |->
       LET holders == {i \in DOMAIN folds : idx \in Range(folds[i])} IN
       IF holders = {} THEN 0 ELSE Max(holders)]

\* lines 104-114 and 141-145: the loop is over, the vector goes back to
\* _iter_test_masks
finish_stratification ==
    /\ pc = "loop"
    /\ ~LoopCondition
    /\ IF FoldsDisjoint(folds_idx)
       THEN /\ test_folds' = TestIdx(folds_idx)
            /\ pc' = "yield"
            /\ error' = error
       ELSE /\ pc' = "error"
            /\ error' = "AssertionError"
            /\ test_folds' = test_folds
    /\ yield_i' = 0
    /\ UNCHANGED <<tie, other_rng, drawn, X, groups, y, n_splits, shuffle, seeded, rng_choice, rng_perm, warned,
                   ys, subset_c_j, subset_c_ij, completed_labels,
                   sampled_indices, folds_idx, label, y_l, y_l_pos, fold_index,
                   yielded, calls, history, n_strat>>

\* -------------------------------------------------------- _iter_test_masks
\* line 147: test_folds == i
TestMask(i) == {idx \in DOMAIN test_folds : test_folds[idx] = i}

\* BaseCrossValidator.split: indices[np.logical_not(mask)], indices[mask]
TrainTestPair(i) ==
    [train |-> (0..(n_samples_of(X) - 1)) \ TestMask(i), test |-> TestMask(i)]

PcAfterYieldOneShort(i) == IF i + 1 < n_splits - 1 THEN "yield" ELSE "exhausted"

PcAfterYieldRecompute(i) == IF i + 1 < n_splits THEN "make_test_folds" ELSE "exhausted"

\* line 146: for i in range(self.n_splits)
PcAfterYield(i) == IF i + 1 < n_splits THEN "yield" ELSE "exhausted"

\* lines 146-147: one pair is handed to the caller
yield_fold ==
    /\ pc = "yield"
    /\ yield_i < n_splits
    /\ yielded' = Append(yielded, TrainTestPair(yield_i))
    /\ yield_i' = yield_i + 1
    /\ pc' = PcAfterYield(yield_i)
    /\ UNCHANGED <<tie, other_rng, drawn, X, groups, y, n_splits, shuffle, seeded, rng_choice, rng_perm, error,
                   warned, ys, subset_c_j, subset_c_ij, completed_labels,
                   sampled_indices, folds_idx, label, y_l, y_l_pos, fold_index,
                   test_folds, calls, history, n_strat>>

\* lines 149-168
get_n_splits(XX, yy, gg) == n_splits

\* ------------------------------------------------------------ specification
GeneratorSharedWithOther == <<<< >>, << >>>>

\* lines 30 and 120: check_random_state(seed) builds a generator of its own
\* in every call, so a draw of another split leaves what this splitter's
\* seed fixes (its draws, its shuffle) as it is
GeneratorAfterOtherDraw == <<rng_choice, rng_perm>>

\* a step of another split invocation, with a seed of its own, that runs
\* while this splitter's second split does: it breaks a tie of two
\* candidates (lines 30-32)
other_draw ==
    /\ seeded
    /\ Len(history) = 1
    /\ pc \notin {"exhausted", "error"}
    /\ \E p \in 1..2 :
         /\ (2 \in DOMAIN other_rng) => p = other_rng[2]
         /\ other_rng' = [m \in {2} |-> p]
    /\ rng_choice' = GeneratorAfterOtherDraw[1]
    /\ rng_perm' = GeneratorAfterOtherDraw[2]
    /\ UNCHANGED <<tie, drawn, X, groups, y, n_splits, shuffle, seeded, pc, error,
                   warned, ys, subset_c_j, subset_c_ij, completed_labels,
                   sampled_indices, folds_idx, label, y_l, y_l_pos, fold_index,
                   test_folds, yield_i, yielded, calls, history, n_strat>>

Next ==
    \/ split
    \/ make_test_folds
    \/ stratify_init
    \/ select_label
    \/ skip_sampled
    \/ commit_sample
    \/ end_pass
    \/ finish_stratification
    \/ yield_fold

Spec == Init /\ [][Next]_vars

SpecWide == InitWide /\ [][Next]_vars

SpecShuffle == InitShuffle /\ [][Next]_vars

NextRepeat == Next \/ split_again

SpecRepeat == InitRepeat /\ [][NextRepeat]_vars

NextFresh == Next \/ split_other \/ split_back

SpecFresh == InitFresh /\ [][NextFresh]_vars

SpecManyLabels == InitManyLabels /\ [][Next]_vars

NextConcurrent == NextRepeat \/ other_draw

SpecConcurrent == InitRepeat /\ [][NextConcurrent]_vars

SpecRagged == InitRagged /\ [][Next]_vars

SpecTies == InitTies /\ [][arg_with_ties]_vars

\* the interpreter runs a started split on: a step that can be taken is
\* eventually taken
SpecLive == InitLive /\ [][Next]_vars /\ WF_vars(Next)

NextArguments == Next \/ split_other_arguments

SpecArguments == InitArguments /\ [][NextArguments]_vars


\* ----------------------------------------------------------- vocabulary
Finished == pc \in {"yield", "exhausted"}

Started == folds_idx # <<>>

\* the places (fold, position) of folds_idx that hold idx
PlacesOf(idx) ==
    {pl \in Folds \X (1..n_samples) :
       pl[2] <= Len(folds_idx[pl[1]]) /\ folds_idx[pl[1]][pl[2]] = idx}

\* observed_count[f][l]: samples of fold f that carry l
Observed(f, l) == Cardinality({idx \in Range(folds_idx[f]) : Carries(ys[idx], l)})

\* every sample carries exactly one label
SingleLabel(arr) == \A i \in DOMAIN arr : Cardinality(Range(arr[i])) = 1

\* every count[l] is a multiple of n_splits
EvenlyDivisible(arr) == \A l \in unique_y(arr) : SampleCount(arr, l) % n_splits = 0

Abs(x) == IF x < 0 THEN -x ELSE x

\* ------------------------------------------------------------------ claims

\* C1: in every state of the stratification loop and after it, no sample
\* index occurs at two places of the member lists (two folds, or twice in
\* one fold), and the disjointness assertion never fails.
C1_Disjointness ==
    /\ error # "AssertionError"
    /\ Started =>
         /\ \A idx \in DOMAIN ys : Cardinality(PlacesOf(idx)) <= 1
         /\ FoldsDisjoint(folds_idx)

C1_Witness ==
    /\ pc = "for"
    /\ Len(completed_labels) >= 1
    /\ \E a, b \in Folds : a # b /\ folds_idx[a] # <<>> /\ folds_idx[b] # <<>>
    /\ y_l_pos > 1
    /\ y_l[y_l_pos - 1] \in sampled_indices
    /\ Cardinality(PlacesOf(y_l[y_l_pos - 1])) = 1

\* C2: when the stratifier has terminated, every sample index of 0..N-1 is
\* at exactly one place of the member lists, the assignment vector maps it
\* to that fold, a fold id of [0, n_splits), and the member sets together
\* are exactly 0..N-1.
C2_Coverage ==
    Finished =>
      /\ DOMAIN test_folds = 0..(n_samples_of(y) - 1)
      /\ \A idx \in 0..(n_samples_of(y) - 1) :
           /\ Cardinality(PlacesOf(idx)) = 1
           /\ test_folds[idx] \in Folds
           /\ idx \in Range(folds_idx[test_folds[idx]])
      /\ UNION {Range(folds_idx[f]) : f \in Folds} = 0..(n_samples_of(y) - 1)

C2_Witness ==
    /\ pc = "yield"
    /\ n_samples_of(y) >= 3
    /\ Len(completed_labels) >= 2
    /\ \E idx \in DOMAIN test_folds : test_folds[idx] > 0

\* C3 as stated: with every label on at least n_splits samples, the final
\* assignment has |observed_count[f][l] - count[l]/n_splits| <= 1 for every
\* label and fold (both sides times n_splits).
C3_BalanceBound ==
    (Finished /\ NonDegenerate(ys)) =>
      \A f \in Folds : \A l \in unique_y(ys) :
        Abs(n_splits * Observed(f, l) - SampleCount(ys, l)) <= n_splits

\* C3 amended: the bound holds when, in addition, every sample carries
\* exactly one label.
C3_BalanceBoundSingleLabel ==
    (Finished /\ NonDegenerate(ys) /\ SingleLabel(ys)) =>
      \A f \in Folds : \A l \in unique_y(ys) :
        Abs(n_splits * Observed(f, l) - SampleCount(ys, l)) <= n_splits

C3_Witness ==
    /\ Finished
    /\ NonDegenerate(ys)
    /\ SingleLabel(ys)
    /\ n_samples >= 3
    /\ \E l \in unique_y(ys) : SampleCount(ys, l) % n_splits # 0


\* C4: with an integer seed, a split that ends after an earlier split of
\* the same object on the same input ends the same way: the same assignment
\* vector and the same sequence of (train, test) pairs.
C4_Determinism ==
    (seeded /\ history # <<>> /\ pc \in {"exhausted", "error"}) =>
      /\ history[Len(history)].vector = test_folds
      /\ history[Len(history)].pairs = yielded
      /\ history[Len(history)].error = error

C4_Witness ==
    /\ seeded
    /\ history # <<>>
    /\ pc = "exhausted"
    /\ shuffle
    /\ \E m \in DOMAIN rng_choice : m >= 2
    /\ \E i \in DOMAIN y : ys[i] # y[i]

\* the caller's samples of a yielded test set that carry l
TestSamplesCarrying(f, l) ==
    Cardinality({idx \in yielded[f + 1].test : Carries(y[idx], l)})

\* C5 as stated: with shuffle=True, single-label samples and every count[l]
\* a multiple of n_splits, each yielded test fold, read as indices into the
\* caller's array y, holds exactly count[l]/n_splits samples carrying l.
C5_ShuffleKeepsBalance ==
    (shuffle /\ pc = "exhausted" /\ SingleLabel(y) /\ EvenlyDivisible(y)) =>
      \A f \in Folds : \A l \in unique_y(y) :
        n_splits * TestSamplesCarrying(f, l) = SampleCount(y, l)

\* C6: without shuffle, single-label samples and every count[l] a multiple
\* of n_splits: every fold ends with exactly count[l]/n_splits samples of
\* each label and N/n_splits samples in all.
C6_ExactBalance ==
    (~shuffle /\ Finished /\ SingleLabel(y) /\ EvenlyDivisible(y)) =>
      \A f \in Folds :
        /\ \A l \in unique_y(y) : n_splits * Observed(f, l) = SampleCount(y, l)
        /\ n_splits * Len(folds_idx[f]) = n_samples_of(y)
        /\ n_splits * Cardinality(TestMask(f)) = n_samples_of(y)

C6_Witness ==
    /\ ~shuffle
    /\ Finished
    /\ SingleLabel(y)
    /\ EvenlyDivisible(y)
    /\ Cardinality(unique_y(y)) >= 2
    /\ n_samples_of(y) >= 4


AllIndices == 0..(n_samples_of(y) - 1)

\* C7: split yields exactly n_splits pairs, the value of get_n_splits
\* whatever its arguments, one per fold id in increasing order; in pair f
\* the test set is the set of indices assigned to fold f and the train set
\* its complement in 0..N-1.
C7_YieldedPairs ==
    /\ get_n_splits(<<>>, <<>>, <<>>) = n_splits
    /\ get_n_splits(y, ys, n_samples) = n_splits
    /\ Len(yielded) <= get_n_splits(y, y, <<>>)
    /\ pc = "exhausted" => Len(yielded) = get_n_splits(y, y, <<>>)
    /\ pc = "yield" => Len(yielded) = yield_i /\ yield_i < n_splits
    /\ \A f \in 0..(Len(yielded) - 1) :
         /\ yielded[f + 1].test = {idx \in AllIndices : test_folds[idx] = f}
         /\ yielded[f + 1].train = {idx \in AllIndices : test_folds[idx] # f}
         /\ yielded[f + 1].train \cap yielded[f + 1].test = {}
         /\ yielded[f + 1].train \cup yielded[f + 1].test = AllIndices

C7_Witness ==
    /\ pc = "exhausted"
    /\ n_splits >= 3
    /\ Len(yielded) = n_splits
    /\ \A f \in 1..Len(yielded) : yielded[f].test # {}

\* C8: the stratifier has run exactly once when the first pair is yielded
\* and is not run again by the same split; the test sets of the pairs of
\* one split are pairwise disjoint and, once all are yielded, cover 0..N-1.
C8_SingleStratification ==
    /\ (pc = "yield" \/ yielded # <<>>) => n_strat = 1
    /\ n_strat <= 1
    /\ \A f, g \in 1..Len(yielded) : f # g => yielded[f].test \cap yielded[g].test = {}
    /\ pc = "exhausted" => UNION {yielded[f].test : f \in 1..Len(yielded)} = AllIndices

C8_Witness ==
    /\ pc = "exhausted"
    /\ n_strat = 1
    /\ Cardinality({f \in 1..Len(yielded) : yielded[f].test # {}}) >= 2
    /\ Len(completed_labels) >= 2

\* min over the labels of count[l], the samples carrying l
MinSampleCount(arr) == Min({SampleCount(arr, l) : l \in unique_y(arr)})

C10_FailsBeforeAssignment ==
    /\ (calls >= 1 /\ y # <<>> /\ \A l \in unique_y(y) : SampleCount(y, l) < n_splits) =>
         pc \in {"make_test_folds", "error"}
    /\ pc = "error" =>
         /\ error = "ValueError"
         /\ sampled_indices = {}
         /\ folds_idx = <<>>
         /\ subset_c_j = NoTargets
         /\ subset_c_ij = NoTargets
         /\ completed_labels = <<>>
         /\ n_strat = 0

C10_Witness ==
    /\ pc = "error"
    /\ ys # <<>>
    /\ \A l \in unique_y(y) : SampleCount(y, l) < n_splits
    /\ n_samples_of(y) >= 3
    /\ n_splits >= 3

\* the member lists are a partition of the caller's indices, the assignment
\* vector names the fold of each index
ValidPartition ==
    /\ \A f, g \in Folds : f # g => Range(folds_idx[f]) \cap Range(folds_idx[g]) = {}
    /\ \A idx \in AllIndices : \E f \in Folds : idx \in Range(folds_idx[f])
    /\ \A idx \in AllIndices : idx \in Range(folds_idx[test_folds[idx]])
    /\ \A f \in 1..Len(yielded) : yielded[f].test = Range(folds_idx[f - 1])

SomeLabelTooSmall(arr) == \E l \in unique_y(arr) : SampleCount(arr, l) < n_splits

SomeLabelLargeEnough(arr) == \E l \in unique_y(arr) : SampleCount(arr, l) >= n_splits

C12_EmptyInputRejected ==
    (calls >= 1 /\ (n_samples_of(y) = 0 \/ unique_y(y) = {})) =>
      /\ pc = "error"
      /\ error = "ValueError"
      /\ yielded = <<>>
      /\ test_folds = <<>>
      /\ ys = <<>>
      /\ n_strat = 0

C12_Witness ==
    /\ pc = "error"
    /\ calls >= 1
    /\ n_samples_of(y) >= n_splits
    /\ unique_y(y) = {}

\* C13: the targets, the completed labels and the member lists with which
\* the loop of any call starts are the initial ones for the array of that
\* call, whatever the earlier calls left; and with a seed, the split of an
\* array made after splits of the same object on that array and on another
\* one ends as the first split of the object on that array did.
C13_FreshPerCall ==
    /\ (pc = "loop" /\ completed_labels = <<>>) =>
         /\ subset_c_j = [f \in Folds |-> n_samples_of(ys)]
         /\ subset_c_ij = [f \in Folds |-> [l \in unique_y(ys) |-> SampleCount(ys, l)]]
         /\ sampled_indices = {}
         /\ folds_idx = [f \in Folds |-> <<>>]
    /\ (Len(history) = 2 /\ pc \in {"exhausted", "error"}) =>
         /\ history[1].input = y
         /\ history[1].vector = test_folds
         /\ history[1].pairs = yielded
         /\ history[1].error = error

C13_Witness ==
    /\ Len(history) = 2
    /\ pc = "exhausted"
    /\ history[2].input # y
    /\ history[2].pairs # <<>>
    /\ history[1].pairs = yielded
    /\ Len(completed_labels) >= 2
    /\ \E m \in DOMAIN rng_choice : m >= 2

RECURSIVE SizeTaken(_)
SizeTaken(f) ==
    IF f < 0 THEN 0 ELSE (n_samples_of(ys) - subset_c_j[f]) + SizeTaken(f - 1)

\* a step that ends a pass, and one that commits a sample to fold f
PassEnds == completed_labels' = Append(completed_labels, label)

CommitsTo(f) ==
    /\ folds_idx # <<>>
    /\ DOMAIN folds_idx' = DOMAIN folds_idx
    /\ Len(folds_idx'[f]) = Len(folds_idx[f]) + 1

\* what a step may do to the target_size values
SizeStep ==
    /\ \A f \in Folds : CommitsTo(f) =>
         (subset_c_j' = subset_c_j /\ fold_index' = f)
    /\ PassEnds =>
         /\ fold_index \in Folds
         /\ subset_c_j'[fold_index] = subset_c_j[fold_index] - n_splits
         /\ \A f \in Folds \ {fold_index} : subset_c_j'[f] = subset_c_j[f]
         /\ sampled_indices' = sampled_indices
    /\ (subset_c_j # NoTargets /\ subset_c_j' # NoTargets
          /\ subset_c_j' # subset_c_j) => PassEnds

\* C15: in every state of a run the target_size taken off over all folds is
\* 1 per completed pass (N/n_splits - target_size[f], summed); a commit
\* leaves every target_size as it is and makes its fold the one that last
\* received a sample; the end of a pass takes exactly 1 off the target_size
\* of that fold and leaves the other folds' unchanged; nothing else changes a
\* target_size.
C15_SizeOncePerPass ==
    /\ [](subset_c_j # NoTargets =>
            SizeTaken(n_splits - 1) = n_splits * Len(completed_labels))
    /\ [][SizeStep]_vars

C15_Witness ==
    /\ pc = "loop"
    /\ Len(completed_labels) = 1
    /\ Cardinality(sampled_indices) >= 3
    /\ SizeTaken(n_splits - 1) = n_splits
    /\ \E f \in Folds : subset_c_j[f] = n_samples_of(ys)

\* what a commit may do to the target_count values
CountStep ==
    \A f \in Folds : CommitsTo(f) =>
      LET idx == folds_idx'[f][Len(folds_idx'[f])] IN
      /\ \A g \in Folds \ {f} : subset_c_ij'[g] = subset_c_ij[g]
      /\ \A l \in unique_y(ys) :
           subset_c_ij'[f][l] =
             IF Carries(ys[idx], l) THEN subset_c_ij[f][l] - n_splits
             ELSE subset_c_ij[f][l]

MaxCountFolds(l) ==
    {f \in Folds : \A g \in Folds : subset_c_ij[g][l] <= subset_c_ij[f][l]}

DoublyTiedFolds(l) ==
    {f \in MaxCountFolds(l) : \A g \in MaxCountFolds(l) : subset_c_j[g] <= subset_c_j[f]}

\* C17: a commit made during the pass of label l* goes to a fold whose
\* target_count for l* was, just before, the largest of all folds and whose
\* target_size was the largest among the folds with that target_count.
C17_FoldChoice ==
    [][\A f \in Folds : CommitsTo(f) =>
         /\ label' = label
         /\ Carries(ys[folds_idx'[f][Len(folds_idx'[f])]], label)
         /\ f \in DoublyTiedFolds(label)]_vars

C17_Witness ==
    /\ pc = "for"
    /\ Cardinality(sampled_indices) >= 2
    /\ fold_index \in Folds
    /\ \E f, g \in Folds : f # g /\ folds_idx[f] # <<>> /\ folds_idx[g] # <<>>
    /\ DoublyTiedFolds(label) # Folds
    /\ fold_index \notin MaxCountFolds(label)

\* the labels that are not completed
NotCompleted == unique_y(ys) \ Range(completed_labels)

InPass == pc = "for"

\* a step of the stratifier leaves the array, hence every count[l], as it is
CountsKept == (pc \in {"loop", "for"}) => (ys' = ys)

\* C18: the label of a running pass is not in the completed set and no
\* not-completed label has a smaller count[l]; no label is completed twice;
\* the completed labels are in non-decreasing order of count[l]; and the
\* array from which count[l] is taken does not change while the stratifier
\* runs.
C18_LabelOrder ==
    /\ [](InPass =>
            /\ label \in NotCompleted
            /\ \A l \in NotCompleted : SampleCount(ys, label) <= SampleCount(ys, l))
    /\ [](\A i, j \in 1..Len(completed_labels) :
            i < j =>
              /\ completed_labels[i] # completed_labels[j]
              /\ SampleCount(ys, completed_labels[i]) <= SampleCount(ys, completed_labels[j]))
    /\ [][CountsKept]_vars

C18_Witness ==
    /\ pc = "loop"
    /\ Len(completed_labels) >= 2
    /\ SampleCount(ys, completed_labels[1]) < SampleCount(ys, completed_labels[2])
    /\ NotCompleted # {}

\* the still-unassigned samples that carry l
Remaining(l) == {idx \in DOMAIN ys : Carries(ys[idx], l) /\ idx \notin sampled_indices}

\* a pass has just selected its label
PassStarts == pc = "for" /\ y_l_pos = 1

\* C19 as stated: when a pass starts, at least one still-unassigned sample
\* carries its label, and no not-completed label with an unassigned sample
\* has fewer of them.
C19_FewestRemaining ==
    PassStarts =>
      /\ Cardinality(Remaining(label)) >= 1
      /\ \A l \in NotCompleted :
           Remaining(l) # {} => Cardinality(Remaining(label)) <= Cardinality(Remaining(l))

\* the end of a pass that committed no sample
EmptyPassEnds == PassEnds /\ EmptyPass

C21_ProgressPerPass ==
    [][PassEnds => ~EmptyPass]_vars

\* the distinct labels of the array, L
NumDistinctLabels == Cardinality(unique_y(ys))

AllAssigned == Cardinality(sampled_indices) = n_samples_of(ys)

\* a step of the loop adds at most one label to the completed ones, and
\* adds one exactly when it ends a pass
OneLabelPerPass ==
    (pc \in {"loop", "for"}) =>
      \/ completed_labels' = completed_labels /\ ~(pc = "for" /\ pc' = "loop")
      \/ /\ pc = "for"
         /\ pc' = "loop"
         /\ Len(completed_labels') = Len(completed_labels) + 1
         /\ Range(completed_labels') = Range(completed_labels) \cup {label}
         /\ label \notin Range(completed_labels)

LoopEntered == subset_c_ij # NoTargets

\* C23 as stated: a run that has entered the main loop never ends in an
\* error state, and no run fails after a sample has been committed.
C23_ErrorsOnlyAtStart ==
    pc = "error" => (~LoopEntered /\ sampled_indices = {})

\* some sample carries no label at all
HasUnlabelled(arr) == \E i \in DOMAIN arr : Len(arr[i]) = 0

\* C29 as stated: an input with a sample without labels that passes the
\* precondition check never yields a partition; its run ends in an error
\* state, raised by the label selection, with every label completed, the
\* sample without labels unassigned and the loop condition true.
C29_ZeroLabelSample ==
    (HasUnlabelled(ys) /\ n_strat >= 1) =>
      /\ ~Finished
      /\ pc = "error" =>
           /\ error = "ValueError"
           /\ Range(completed_labels) = unique_y(ys)
           /\ \E i \in DOMAIN ys : Len(ys[i]) = 0 /\ i \notin sampled_indices
           /\ LoopCondition

\* everything but the position of the for loop of lines 73-98
AllButPosition ==
    <<tie, other_rng, drawn, X, groups, y, n_splits, shuffle, seeded, rng_choice,
      rng_perm, pc, error, warned, ys, subset_c_j, subset_c_ij, completed_labels, sampled_indices,
      folds_idx, label, y_l, fold_index, test_folds, yield_i, yielded, calls,
      history, n_strat>>

\* a step of a running pass: a commit takes the unassigned sample of the
\* label with the smallest index; a step that stays in the pass without a
\* commit passes over an assigned sample and changes nothing else; the pass
\* ends with no sample of the label unassigned
PassStep ==
    /\ (pc = "for" /\ sampled_indices' # sampled_indices) =>
         /\ Remaining(label) # {}
         /\ sampled_indices' = sampled_indices \cup {Min(Remaining(label))}
    /\ (pc = "for" /\ pc' = "for" /\ sampled_indices' = sampled_indices) =>
         /\ y_l[y_l_pos] \in sampled_indices
         /\ y_l_pos' = y_l_pos + 1
         /\ AllButPosition' = AllButPosition
    /\ PassEnds => Remaining(label) = {}

\* C24: within a pass the unassigned samples of the label are committed in
\* increasing index order, the assigned ones are passed over without any
\* other change of state, and the pass ends with none of them unassigned.
C24_PassOrder == [][PassStep]_vars

C24_Witness ==
    /\ pc = "for"
    /\ y_l_pos > Len(y_l)
    /\ Remaining(label) = {}
    /\ \E i, j \in Range(y_l) :
         /\ i < j
         /\ \E k \in 1..Len(completed_labels) : Carries(ys[i], completed_labels[k])
         /\ \A k \in 1..Len(completed_labels) : ~Carries(ys[j], completed_labels[k])

\* the 0-based positions of the keys of the call that no other key beats
TiedPositions ==
    {j - 1 : j \in {i \in DOMAIN tie.array :
        \A k \in DOMAIN tie.array :
          IF tie.arg_func = "min" THEN tie.array[i] <= tie.array[k]
          ELSE tie.array[i] >= tie.array[k]}}

\* C25: called on a non-empty list, set mode returns the positions of the
\* extremum, all of them, in ascending order and each once; single mode
\* returns one of these positions.
C25_TieBreakerResult ==
    (tie.done /\ tie.array # <<>>) =>
      IF tie.break_ties
      THEN tie.returned \in TiedPositions
      ELSE /\ Range(tie.returned) = TiedPositions
           /\ \A i, j \in DOMAIN tie.returned :
                i < j => tie.returned[i] < tie.returned[j]

C25_Witness ==
    /\ tie.done
    /\ tie.arg_func = "max"
    /\ tie.break_ties
    /\ Len(tie.array) = 3
    /\ Cardinality(TiedPositions) = 2
    /\ tie.returned = Max(TiedPositions)

C27_FirstLabelBalanced ==
    (folds_idx # <<>> /\ completed_labels # <<>>) =>
      \A f, g \in Folds :
        Abs(Observed(f, completed_labels[1]) - Observed(g, completed_labels[1])) <= 1

C27_Witness ==
    /\ pc = "yield"
    /\ Len(completed_labels) >= 2
    /\ n_splits = 2
    /\ Cardinality(Carriers(ys, completed_labels[1])) = 2
    /\ \A f \in Folds : Observed(f, completed_labels[1]) = 1

====
